---- MODULE Spec2Model ----
(***************************************************************************)
(* Model of the enrollments application (src/enrollments/models.py and     *)
(* src/enrollments/viewsets.py): the Course and Student documents, the     *)
(* embedded Enrollment list, and the request handlers of CourseViewSet and *)
(* StudentViewSet.                                                         *)
(*                                                                         *)
(* The handlers are Python 2 code (e.message, indexing the result of       *)
(* filter(), map() called for its side effects), so map and filter build   *)
(* lists eagerly and int / int is floor division.                          *)
(*                                                                         *)
(* Spec     : every request runs to completion before the next starts.     *)
(* SpecConc : requests interleave at their store reads and writes.         *)
(***************************************************************************)
EXTENDS Integers, Sequences, FiniteSets, TLC

VARIABLES
    courses,    \* Course collection: id -> points, for the courses that exist
    students,   \* Student collection: id -> enrollments (a sequence)
    resp,       \* the last request served and its response (Spec)
    reqs        \* the requests in flight, each with its locals (SpecConc)

vars == <<courses, students, resp, reqs>>

(***************************************************************************)
(* Bounds and input sets.                                                  *)
(***************************************************************************)
MaxEnroll == 2                      \* longest enrollment list explored

StudentIds == {1, 2}              \* store order of Student.objects.all()
CourseIds == {"c1", "c2"}
DefaultPoints == 4                \* Course.points, default=4
PointValues == {DefaultPoints, 6} \* Course.points
GradeValues == {89, 90}           \* grades posted to /grade

\* Enrollment.grade is nullable: the empty tuple is None, <<g>> is the int g.
Null == <<>>
Some(g) == <<g>>
GradeInputs == {Null} \cup {Some(g) : g \in GradeValues}

HTTP_200_OK == 200
HTTP_204_NO_CONTENT == 204
HTTP_400_BAD_REQUEST == 400
HTTP_404_NOT_FOUND == 404
HTTP_410_GONE == 410
HTTP_500_SERVER_ERROR == 500

(***************************************************************************)
(* models.py                                                               *)
(***************************************************************************)
Enrollment(course, grade) == [course |-> course, grade |-> grade]

\* Python's `x in list`
InSeq(x, seq) == \E i \in 1..Len(seq) : seq[i] = x

\* Student.enrolled_courses
enrolled_courses(enrollments) ==
    [i \in 1..Len(enrollments) |-> enrollments[i].course]

\* Student.enrol: no duplicate check here
StudentEnrol(enrollments, course) ==
    Append(enrollments, Enrollment(course, Null))

\* Course.get_enrolled_students over a collection of students
get_enrolled_students(course, store) ==
    {s \in DOMAIN store : InSeq(course, enrolled_courses(store[s]))}

(***************************************************************************)
(* Python list helpers                                                     *)
(***************************************************************************)
\* list.remove(x): drops the first element equal to x
RECURSIVE ListRemove(_, _)
ListRemove(list, x) ==
    IF list = <<>> THEN <<>>
    ELSE IF Head(list) = x THEN Tail(list)
    ELSE <<Head(list)>> \o ListRemove(Tail(list), x)

RECURSIVE RemoveEach(_, _)
RemoveEach(list, toRemove) ==
    IF toRemove = <<>> THEN list
    ELSE RemoveEach(ListRemove(list, Head(toRemove)), Tail(toRemove))

\* the ids of a set of students as a sequence in store order
RECURSIVE InStoreOrder(_)
InStoreOrder(S) ==
    IF S = {} THEN <<>>
    ELSE LET m == CHOOSE x \in S : \A y \in S : x <= y
         IN <<m>> \o InStoreOrder(S \ {m})

(***************************************************************************)
(* CourseViewSet.destroy, de_enrol                                         *)
(***************************************************************************)
de_enrol_first_only(enrollments, course) ==
    LET matches == SelectSeq(enrollments, LAMBDA e : e.course = course)
    IN IF matches = <<>> THEN enrollments
       ELSE ListRemove(enrollments, Head(matches))

\* for enrollment in filter(...): student.enrollments.remove(enrollment)
de_enrol(enrollments, course) ==
    RemoveEach(enrollments,
               SelectSeq(enrollments, LAMBDA e : e.course = course))

(***************************************************************************)
(* StudentViewSet.get_outstanding_students                                 *)
(***************************************************************************)
\* sum of enrollment.grade * enrollment.course.points over graded enrollments
RECURSIVE WeightedSum(_, _)
WeightedSum(enrollments, points) ==
    IF enrollments = <<>> THEN 0
    ELSE Head(enrollments).grade[1] * points[Head(enrollments).course]
         + WeightedSum(Tail(enrollments), points)

\* sum of enrollment.course.points
RECURSIVE TotalPoints(_, _)
TotalPoints(enrollments, points) ==
    IF enrollments = <<>> THEN 0
    ELSE points[Head(enrollments).course]
         + TotalPoints(Tail(enrollments), points)

HasNullGrade(enrollments) ==
    \E i \in 1..Len(enrollments) : enrollments[i].grade = Null

\* the outcome of calc_score: a score, or the TypeError of None * int
Scored(score) == [ok |-> TRUE, score |-> score]
TypeError == [ok |-> FALSE, score |-> 0]

NullAsZero(enrollments) ==
    [i \in 1..Len(enrollments) |->
        IF enrollments[i].grade = Null
        THEN Enrollment(enrollments[i].course, Some(0))
        ELSE enrollments[i]]

calc_score_null_as_zero(enrollments, points) ==
    LET graded == NullAsZero(enrollments)
        sum == WeightedSum(graded, points)
        total == TotalPoints(graded, points)
    IN IF total > 0 THEN Scored(sum \div total) ELSE Scored(0)

\* calc_score: Python 2, so sum / points is floor division
calc_score(enrollments, points) ==
    IF HasNullGrade(enrollments) THEN TypeError
    ELSE LET sum == WeightedSum(enrollments, points)
             total == TotalPoints(enrollments, points)
         IN IF total > 0 THEN Scored(sum \div total) ELSE Scored(0)

\* x goes after every element whose key is >= its own
RECURSIVE InsertDesc(_, _)
InsertDesc(x, sorted) ==
    IF sorted = <<>> THEN <<x>>
    ELSE IF Head(sorted).score >= x.score
         THEN <<Head(sorted)>> \o InsertDesc(x, Tail(sorted))
         ELSE <<x>> \o sorted

\* sorted(pairs, key=lambda x: x[1], reverse=True): descending and stable
RECURSIVE sorted_reverse(_)
sorted_reverse(pairs) ==
    IF pairs = <<>> THEN <<>>
    ELSE InsertDesc(pairs[Len(pairs)],
                    sorted_reverse(SubSeq(pairs, 1, Len(pairs) - 1)))

Returned(list) == [ok |-> TRUE, list |-> list]
Raised == [ok |-> FALSE, list |-> <<>>]

\* get_queryset(): the students the query parameters select, in store order
get_queryset(pool) == InStoreOrder(pool)

get_outstanding_students(pool, minimum_score) ==
    LET queryset == get_queryset(pool)
        results == [i \in 1..Len(queryset) |->
                       calc_score(students[queryset[i]], courses)]
    IN IF \E i \in 1..Len(queryset) : ~results[i].ok THEN Raised
       ELSE LET student_scores ==
                    [i \in 1..Len(queryset) |->
                        [student |-> queryset[i], score |-> results[i].score]]
                high_student_scores ==
                    SelectSeq(student_scores,
                              LAMBDA p : p.score >= minimum_score)
                ranked == sorted_reverse(high_student_scores)
            IN Returned([i \in 1..Len(ranked) |-> ranked[i].student])

(***************************************************************************)
(* Requests served one at a time.  resp records the request (its           *)
(* parameters and what the handler read) and the response.                 *)
(***************************************************************************)
Response(op, student, course, grade, pool, fetched, fetchedAll, status, error, body) ==
    [op |-> op, student |-> student, course |-> course, grade |-> grade,
     pool |-> pool, fetched |-> fetched, fetchedAll |-> fetchedAll,
     status |-> status, error |-> error, body |-> body]

NoResponse ==
    Response("none", 0, "", Null, {}, <<>>, <<>>, 0, "", <<>>)

SavePush(store, s, enrollments) ==
    IF enrollments = <<>> THEN store
    ELSE [store EXCEPT ![s] = Append(@, enrollments[Len(enrollments)])]

\* student.save(): the request's copy of the enrollment list replaces the
\* stored one
Save(store, s, enrollments) ==
    [store EXCEPT ![s] = enrollments]

\* `course in student.enrolled_courses()`
AlreadyEnrolledNever(enrollments, course) == FALSE

AlreadyEnrolled(enrollments, course) ==
    InSeq(course, enrolled_courses(enrollments))

\* filter(lambda enrollment: enrollment.course == course, ...)[0]
FirstMatch(enrollments, course) ==
    CHOOSE i \in 1..Len(enrollments) :
        /\ enrollments[i].course = course
        /\ \A j \in 1..(i - 1) : enrollments[j].course # course

SetGradeLastMatch(enrollments, course, grade) ==
    LET last == CHOOSE i \in 1..Len(enrollments) :
                    /\ enrollments[i].course = course
                    /\ \A j \in (i + 1)..Len(enrollments) :
                           enrollments[j].course # course
    IN [enrollments EXCEPT ![last].grade = grade]

\* enrollment = filter(...)[0]; enrollment.grade = request.data.get('grade')
SetGrade(enrollments, course, grade) ==
    [enrollments EXCEPT ![FirstMatch(enrollments, course)].grade = grade]

\* POST /students/{id}/enrol
Enrol(s, c) ==
    /\ UNCHANGED <<courses, reqs>>
    /\ IF s \notin DOMAIN students
       THEN /\ resp' = Response("enrol", s, c, Null, {}, <<>>, <<>>,
                                HTTP_404_NOT_FOUND, "not_found", <<>>)
            /\ UNCHANGED students
       ELSE IF c \notin DOMAIN courses
       THEN /\ resp' = Response("enrol", s, c, Null, {}, students[s], <<>>,
                                HTTP_400_BAD_REQUEST, "invalid_course", <<>>)
            /\ UNCHANGED students
       ELSE IF AlreadyEnrolled(students[s], c)
       THEN /\ resp' = Response("enrol", s, c, Null, {}, students[s], <<>>,
                                HTTP_400_BAD_REQUEST, "already_enrolled", <<>>)
            /\ UNCHANGED students
       ELSE /\ Len(students[s]) < MaxEnroll
            /\ students' = Save(students, s, StudentEnrol(students[s], c))
            /\ resp' = Response("enrol", s, c, Null, {}, students[s], <<>>,
                                HTTP_200_OK, "", <<s>>)

\* POST /students/{id}/grade
Grade(s, c, g) ==
    /\ UNCHANGED <<courses, reqs>>
    /\ IF s \notin DOMAIN students
       THEN /\ resp' = Response("grade", s, c, g, {}, <<>>, <<>>,
                                HTTP_404_NOT_FOUND, "not_found", <<>>)
            /\ UNCHANGED students
       ELSE IF c \notin DOMAIN courses
       THEN /\ resp' = Response("grade", s, c, g, {}, students[s], <<>>,
                                HTTP_400_BAD_REQUEST, "invalid_course", <<>>)
            /\ UNCHANGED students
       ELSE IF ~InSeq(c, enrolled_courses(students[s]))
       THEN /\ resp' = Response("grade", s, c, g, {}, students[s], <<>>,
                                HTTP_400_BAD_REQUEST, "not_enrolled", <<>>)
            /\ UNCHANGED students
       ELSE /\ students' = Save(students, s, SetGrade(students[s], c, g))
            /\ resp' = Response("grade", s, c, g, {}, students[s], <<>>,
                                HTTP_200_OK, "", <<s>>)

\* POST /students/bulk_enrol?course={id}, over the students the filters select
BulkEnrol(c, pool) ==
    /\ UNCHANGED <<courses, reqs>>
    /\ pool \subseteq DOMAIN students
    /\ IF c \notin DOMAIN courses
       THEN /\ resp' = Response("bulk_enrol", 0, c, Null, pool, <<>>, <<>>,
                                HTTP_400_BAD_REQUEST, "invalid_course", <<>>)
            /\ UNCHANGED students
       ELSE /\ \A s \in pool : Len(students[s]) < MaxEnroll
            /\ students' = [s \in DOMAIN students |->
                               IF s \in pool THEN StudentEnrol(students[s], c)
                               ELSE students[s]]
            /\ resp' = Response("bulk_enrol", 0, c, Null, pool, <<>>, <<>>,
                                HTTP_200_OK, "", get_queryset(pool))

\* DELETE /courses/{id}
DestroyCourse(c) ==
    /\ UNCHANGED reqs
    /\ IF c \notin DOMAIN courses
       THEN /\ resp' = Response("destroy_course", 0, c, Null, {}, <<>>, <<>>,
                                HTTP_404_NOT_FOUND, "not_found", <<>>)
            /\ UNCHANGED <<courses, students>>
       ELSE LET enrolled == get_enrolled_students(c, students)
            IN /\ students' = [s \in DOMAIN students |->
                                  IF s \in enrolled
                                  THEN de_enrol(students[s], c)
                                  ELSE students[s]]
               /\ courses' = [k \in DOMAIN courses \ {c} |-> courses[k]]
               /\ resp' = Response("destroy_course", 0, c, Null, {}, <<>>,
                                   [s \in enrolled |-> students[s]],
                                   HTTP_204_NO_CONTENT, "", <<>>)

\* DELETE /students/{id} (ModelViewSet's own destroy)
DestroyStudent(s) ==
    /\ UNCHANGED <<courses, reqs>>
    /\ IF s \notin DOMAIN students
       THEN /\ resp' = Response("destroy_student", s, "", Null, {}, <<>>, <<>>,
                                HTTP_404_NOT_FOUND, "not_found", <<>>)
            /\ UNCHANGED students
       ELSE /\ students' = [k \in DOMAIN students \ {s} |-> students[k]]
            /\ resp' = Response("destroy_student", s, "", Null, {},
                                students[s], <<>>,
                                HTTP_204_NO_CONTENT, "", <<>>)

\* GET /students/outstanding
Outstanding(pool) ==
    /\ UNCHANGED <<courses, students, reqs>>
    /\ pool \subseteq DOMAIN students
    /\ LET outstanding_students == get_outstanding_students(pool, 90)
       IN IF ~outstanding_students.ok
          THEN resp' = Response("outstanding", 0, "", Null, pool, <<>>, <<>>,
                                HTTP_500_SERVER_ERROR, "TypeError", <<>>)
          ELSE resp' = Response("outstanding", 0, "", Null, pool, <<>>, <<>>,
                                HTTP_200_OK, "", outstanding_students.list)

\* GET /students/valedictorian
Valedictorian(pool) ==
    /\ UNCHANGED <<courses, students, reqs>>
    /\ pool \subseteq DOMAIN students
    /\ LET outstanding_students == get_outstanding_students(pool, 1)
       IN IF ~outstanding_students.ok
          THEN resp' = Response("valedictorian", 0, "", Null, pool, <<>>, <<>>,
                                HTTP_500_SERVER_ERROR, "TypeError", <<>>)
          ELSE IF outstanding_students.list = <<>>
          THEN resp' = Response("valedictorian", 0, "", Null, pool, <<>>, <<>>,
                                HTTP_410_GONE, "", <<>>)
          ELSE resp' = Response("valedictorian", 0, "", Null, pool, <<>>, <<>>,
                                HTTP_200_OK, "",
                                <<outstanding_students.list[1]>>)

\* the first course keeps the default points, the others take any value
InitialCourses ==
    {f \in [CourseIds -> PointValues] : f["c1"] = DefaultPoints}

Init ==
    /\ courses \in InitialCourses
    /\ students = [s \in StudentIds |-> <<>>]
    /\ resp = NoResponse
    /\ reqs = <<>>

Next ==
    \/ \E s \in StudentIds, c \in CourseIds : Enrol(s, c)
    \/ \E s \in StudentIds, c \in CourseIds, g \in GradeInputs : Grade(s, c, g)
    \/ \E c \in CourseIds, pool \in SUBSET StudentIds : BulkEnrol(c, pool)
    \/ \E c \in CourseIds : DestroyCourse(c)
    \/ \E s \in StudentIds : DestroyStudent(s)
    \/ \E pool \in SUBSET StudentIds : Outstanding(pool)
    \/ \E pool \in SUBSET StudentIds : Valedictorian(pool)

Spec == Init /\ [][Next]_vars

(***************************************************************************)
(* Requests in flight.  Each request is a handler run with its own copy of *)
(* the documents it read; requests interleave at the store's reads and     *)
(* writes.  No handler takes a lock.                                       *)
(***************************************************************************)
ReqIds == {"r1", "r2", "r3"}

Request(op, pc, student, course, pool, local, todo, status) ==
    [op |-> op, pc |-> pc, student |-> student, course |-> course,
     pool |-> pool, local |-> local, todo |-> todo, status |-> status]

Idle == Request("none", "idle", 0, "", {}, <<>>, <<>>, 0)

Done(req, status) == [req EXCEPT !.pc = "done", !.status = status]

\* the documents of the students in S, as read now, in store order
RECURSIVE Fetch(_, _)
Fetch(order, store) ==
    IF order = <<>> THEN <<>>
    ELSE <<[student |-> Head(order), enrollments |-> store[Head(order)]]>>
         \o Fetch(Tail(order), store)

\* enrol: student = self.get_object()
EnrolGetObject(r, s, c) ==
    /\ reqs[r].pc = "idle"
    /\ UNCHANGED <<courses, students, resp>>
    /\ IF s \notin DOMAIN students
       THEN reqs' = [reqs EXCEPT ![r] =
                Done(Request("enrol", "idle", s, c, {}, <<>>, <<>>, 0),
                     HTTP_404_NOT_FOUND)]
       ELSE reqs' = [reqs EXCEPT ![r] =
                Request("enrol", "get_course", s, c, {}, students[s], <<>>, 0)]

\* enrol: Course.objects.get, the duplicate check, student.enrol(course)
EnrolGetCourse(r) ==
    /\ reqs[r].op = "enrol"
    /\ reqs[r].pc = "get_course"
    /\ UNCHANGED <<courses, students, resp>>
    /\ IF reqs[r].course \notin DOMAIN courses
       THEN reqs' = [reqs EXCEPT ![r] = Done(@, HTTP_400_BAD_REQUEST)]
       ELSE IF AlreadyEnrolled(reqs[r].local, reqs[r].course)
       THEN reqs' = [reqs EXCEPT ![r] = Done(@, HTTP_400_BAD_REQUEST)]
       ELSE /\ Len(reqs[r].local) < MaxEnroll
            /\ reqs' = [reqs EXCEPT ![r].pc = "save",
                                    ![r].local = StudentEnrol(@, reqs[r].course)]

\* enrol: student.save() and the response
EnrolSave(r) ==
    /\ reqs[r].op = "enrol"
    /\ reqs[r].pc = "save"
    /\ UNCHANGED <<courses, resp>>
    /\ students' = Save(students, reqs[r].student, reqs[r].local)
    /\ reqs' = [reqs EXCEPT ![r] = Done(@, HTTP_200_OK)]

\* destroy: course = self.get_object()
DestroyGetObject(r, c) ==
    /\ reqs[r].pc = "idle"
    /\ UNCHANGED <<courses, students, resp>>
    /\ IF c \notin DOMAIN courses
       THEN reqs' = [reqs EXCEPT ![r] =
                Done(Request("destroy_course", "idle", 0, c, {}, <<>>, <<>>, 0),
                     HTTP_404_NOT_FOUND)]
       ELSE reqs' = [reqs EXCEPT ![r] =
                Request("destroy_course", "get_students", 0, c, {}, <<>>,
                        <<>>, 0)]

\* destroy: students = course.get_enrolled_students(Student.objects.all())
DestroyGetStudents(r) ==
    /\ reqs[r].op = "destroy_course"
    /\ reqs[r].pc = "get_students"
    /\ UNCHANGED <<courses, students, resp>>
    /\ reqs' = [reqs EXCEPT
           ![r].pc = "de_enrol",
           ![r].todo = Fetch(InStoreOrder(
                                 get_enrolled_students(reqs[r].course, students)),
                             students)]

\* destroy: de_enrol(student) for the next enrolled student
DestroyDeEnrol(r) ==
    /\ reqs[r].op = "destroy_course"
    /\ reqs[r].pc = "de_enrol"
    /\ reqs[r].todo # <<>>
    /\ UNCHANGED <<courses, resp>>
    /\ LET doc == Head(reqs[r].todo)
       IN students' = Save(students, doc.student,
                           de_enrol(doc.enrollments, reqs[r].course))
    /\ reqs' = [reqs EXCEPT ![r].todo = Tail(@)]

\* destroy: self.perform_destroy(course) and the response
DestroyPerform(r) ==
    /\ reqs[r].op = "destroy_course"
    /\ reqs[r].pc = "de_enrol"
    /\ reqs[r].todo = <<>>
    /\ UNCHANGED <<students, resp>>
    /\ courses' = [k \in DOMAIN courses \ {reqs[r].course} |-> courses[k]]
    /\ reqs' = [reqs EXCEPT ![r] = Done(@, HTTP_204_NO_CONTENT)]

\* bulk_enrol: course = Course.objects.get(id=course_id)
BulkGetCourse(r, c, pool) ==
    /\ reqs[r].pc = "idle"
    /\ UNCHANGED <<courses, students, resp>>
    /\ IF c \notin DOMAIN courses
       THEN reqs' = [reqs EXCEPT ![r] =
                Done(Request("bulk_enrol", "idle", 0, c, pool, <<>>, <<>>, 0),
                     HTTP_400_BAD_REQUEST)]
       ELSE reqs' = [reqs EXCEPT ![r] =
                Request("bulk_enrol", "get_queryset", 0, c, pool, <<>>, <<>>, 0)]

\* bulk_enrol: the queryset's documents are read when map starts iterating
BulkGetQueryset(r) ==
    /\ reqs[r].op = "bulk_enrol"
    /\ reqs[r].pc = "get_queryset"
    /\ UNCHANGED <<courses, students, resp>>
    /\ reqs' = [reqs EXCEPT
           ![r].pc = "enrol_and_save",
           ![r].todo = Fetch(get_queryset(reqs[r].pool \cap DOMAIN students),
                             students)]

\* bulk_enrol: enrol_and_save(student) for the next student
BulkEnrolAndSave(r) ==
    /\ reqs[r].op = "bulk_enrol"
    /\ reqs[r].pc = "enrol_and_save"
    /\ reqs[r].todo # <<>>
    /\ UNCHANGED <<courses, resp>>
    /\ LET doc == Head(reqs[r].todo)
       IN /\ Len(doc.enrollments) < MaxEnroll
          /\ students' = Save(students, doc.student,
                              StudentEnrol(doc.enrollments, reqs[r].course))
    /\ reqs' = [reqs EXCEPT ![r].todo = Tail(@)]

\* bulk_enrol: the response
BulkRespond(r) ==
    /\ reqs[r].op = "bulk_enrol"
    /\ reqs[r].pc = "enrol_and_save"
    /\ reqs[r].todo = <<>>
    /\ UNCHANGED <<courses, students, resp>>
    /\ reqs' = [reqs EXCEPT ![r] = Done(@, HTTP_200_OK)]

InitConc ==
    /\ courses \in InitialCourses
    /\ students = [s \in StudentIds |-> <<>>]
    /\ resp = NoResponse
    /\ reqs = [r \in ReqIds |-> Idle]

NextConc ==
    \/ \E r \in ReqIds, s \in StudentIds, c \in CourseIds :
           EnrolGetObject(r, s, c)
    \/ \E r \in ReqIds : EnrolGetCourse(r)
    \/ \E r \in ReqIds : EnrolSave(r)
    \/ \E r \in ReqIds, c \in CourseIds : DestroyGetObject(r, c)
    \/ \E r \in ReqIds : DestroyGetStudents(r)
    \/ \E r \in ReqIds : DestroyDeEnrol(r)
    \/ \E r \in ReqIds : DestroyPerform(r)
    \/ \E r \in ReqIds, c \in CourseIds, pool \in SUBSET StudentIds :
           BulkGetCourse(r, c, pool)
    \/ \E r \in ReqIds : BulkGetQueryset(r)
    \/ \E r \in ReqIds : BulkEnrolAndSave(r)
    \/ \E r \in ReqIds : BulkRespond(r)

SpecConc == InitConc /\ [][NextConc]_vars

(***************************************************************************)
(* Properties.                                                             *)
(*                                                                         *)
(* The weighted average of the specification is the rational               *)
(* ScoreNum / ScoreDen; two averages are compared by cross-multiplication. *)
(***************************************************************************)
ScoreNum(s) == WeightedSum(students[s], courses)

ScoreDen(s) ==
    IF TotalPoints(students[s], courses) > 0
    THEN TotalPoints(students[s], courses)
    ELSE 1

\* Score(a) >= Score(b), Score(a) = Score(b), Score(a) >= k
ScoreGE(a, b) == ScoreNum(a) * ScoreDen(b) >= ScoreNum(b) * ScoreDen(a)
ScoreEQ(a, b) == ScoreNum(a) * ScoreDen(b) = ScoreNum(b) * ScoreDen(a)
ScoreAtLeast(a, k) == ScoreNum(a) >= k * ScoreDen(a)

FullyGraded(pool) == \A s \in pool : ~HasNullGrade(students[s])

CountCourse(enrollments, course) ==
    Cardinality({i \in 1..Len(enrollments) : enrollments[i].course = course})

Thresholds == {1, 90}

\* C1: in every state reached by a series of enrol, bulk_enrol, grade and
\* delete-course requests, every Student has at most one Enrollment per
\* distinct Course.
C1_AtMostOneEnrollmentPerCourse ==
    \A s \in DOMAIN students :
        \A i, j \in 1..Len(students[s]) :
            i # j => students[s][i].course # students[s][j].course

\* C2: an Enrol request for a student who already has an Enrollment
\* referencing the course is answered 400 and leaves the stored students,
\* every grade included, exactly as they were.
C2_DuplicateEnrolRejected ==
    [][\A s \in StudentIds, c \in CourseIds :
          (/\ resp'.op = "enrol"
           /\ resp'.student = s
           /\ resp'.course = c
           /\ s \in DOMAIN students
           /\ InSeq(c, enrolled_courses(students[s])))
          => (/\ resp'.status = HTTP_400_BAD_REQUEST
              /\ students' = students
              /\ courses' = courses)]_vars

\* a duplicate Enrol was rejected for a student holding a graded enrollment
C2_Witness ==
    /\ resp.op = "enrol"
    /\ resp.error = "already_enrolled"
    /\ resp.status = HTTP_400_BAD_REQUEST
    /\ \E i \in 1..Len(resp.fetched) :
           /\ resp.fetched[i].course = resp.course
           /\ resp.fetched[i].grade # Null
    /\ students[resp.student] = resp.fetched

\* C3: after DeleteCourse(c) ran to completion, no Student (one that held
\* several Enrollments for c included) has c among its enrolled_courses(),
\* and the Course record c no longer exists.
C3_DeleteCourseDeEnrolsAll ==
    [][\A c \in CourseIds :
          (/\ resp'.op = "destroy_course"
           /\ resp'.course = c
           /\ c \in DOMAIN courses)
          => (/\ resp'.status = HTTP_204_NO_CONTENT
              /\ c \notin DOMAIN courses'
              /\ DOMAIN students' = DOMAIN students
              /\ \A s \in get_enrolled_students(c, students) :
                     ~InSeq(c, enrolled_courses(students'[s])))]_vars

\* a course was deleted while a student held two Enrollments for it and one
\* for another course
C3_Witness ==
    /\ resp.op = "destroy_course"
    /\ resp.status = HTTP_204_NO_CONTENT
    /\ resp.course \notin DOMAIN courses
    /\ \E s \in DOMAIN resp.fetchedAll :
           /\ CountCourse(resp.fetchedAll[s], resp.course) = 2
           /\ s \in DOMAIN students
           /\ ~InSeq(resp.course, enrolled_courses(students[s]))

\* C4: for a student whose enrollments are all graded, Score is
\* sum(grade * points) / sum(points) when the total points is positive (the
\* arithmetic mean of the grades under uniform points, whole number or not)
\* and 0 when the student has no enrollments.
C4_ScoreIsWeightedMean ==
    \A s \in DOMAIN students :
        ~HasNullGrade(students[s]) =>
            LET result == calc_score(students[s], courses)
                total == TotalPoints(students[s], courses)
            IN /\ result.ok
               /\ total > 0 =>
                      result.score * total = WeightedSum(students[s], courses)
               /\ students[s] = <<>> => result.score = 0

\* C5: OutstandingStudents(students, minimumScore) returns exactly the
\* candidates whose Score is >= minimumScore, each once, by Score
\* descending, candidates of equal Score in their original order; so the
\* result for 90 is a subset of the result for 1.
C5_OutstandingRankedByScore ==
    \A pool \in SUBSET DOMAIN students :
        FullyGraded(pool) =>
            /\ \A k \in Thresholds :
                   LET r == get_outstanding_students(pool, k)
                   IN /\ r.ok
                      /\ {r.list[i] : i \in 1..Len(r.list)}
                             = {s \in pool : ScoreAtLeast(s, k)}
                      /\ \A i, j \in 1..Len(r.list) :
                             i < j =>
                                 /\ r.list[i] # r.list[j]
                                 /\ ScoreGE(r.list[i], r.list[j])
                                 /\ ScoreEQ(r.list[i], r.list[j])
                                        => r.list[i] < r.list[j]
            /\ LET high == get_outstanding_students(pool, 90).list
                   any == get_outstanding_students(pool, 1).list
               IN {high[i] : i \in 1..Len(high)}
                      \subseteq {any[i] : i \in 1..Len(any)}

\* the same ranking read against the score calc_score computes (the floor of
\* the weighted average): exact membership, descending, stable
RankedByComputedScore ==
    \A pool \in SUBSET DOMAIN students :
        FullyGraded(pool) =>
            \A k \in Thresholds :
                LET r == get_outstanding_students(pool, k)
                    score(s) == calc_score(students[s], courses).score
                IN /\ r.ok
                   /\ {r.list[i] : i \in 1..Len(r.list)}
                          = {s \in pool : score(s) >= k}
                   /\ \A i, j \in 1..Len(r.list) :
                          i < j =>
                              /\ r.list[i] # r.list[j]
                              /\ score(r.list[i]) >= score(r.list[j])
                              /\ score(r.list[i]) = score(r.list[j])
                                     => r.list[i] < r.list[j]

\* C6: ranking a pool (outstanding or valedictorian) fails with an error and
\* yields no result whenever a candidate has an Enrollment with a null grade;
\* in particular right after a successful Enrol every pool holding that
\* student fails.
C6_NullGradeFailsRanking ==
    /\ (/\ resp.op \in {"outstanding", "valedictorian"}
        /\ \E s \in resp.pool : HasNullGrade(students[s]))
       => (resp.status = HTTP_500_SERVER_ERROR /\ resp.body = <<>>)
    /\ \A pool \in SUBSET DOMAIN students, k \in Thresholds :
           (\E s \in pool : HasNullGrade(students[s]))
               => ~get_outstanding_students(pool, k).ok
    /\ (resp.op = "enrol" /\ resp.status = HTTP_200_OK)
       => \A pool \in SUBSET DOMAIN students, k \in Thresholds :
              resp.student \in pool => ~get_outstanding_students(pool, k).ok

\* the valedictorian query failed over a pool holding an ungraded enrollment
\* beside a student graded 90
C6_Witness ==
    /\ resp.op = "valedictorian"
    /\ resp.status = HTTP_500_SERVER_ERROR
    /\ \E s \in resp.pool : HasNullGrade(students[s])
    /\ \E s \in resp.pool :
           /\ students[s] # <<>>
           /\ ~HasNullGrade(students[s])
           /\ ScoreAtLeast(s, 90)

\* C7: over a fully graded pool the valedictorian query returns exactly one
\* student, the first of OutstandingStudents(students, 1), a student with
\* the maximum Score, whenever some candidate has Score >= 1; otherwise
\* (the empty pool included) it answers 410 and does not fail.
C7_ValedictorianHasMaximumScore ==
    (resp.op = "valedictorian" /\ FullyGraded(resp.pool)) =>
        IF \E s \in resp.pool : ScoreAtLeast(s, 1)
        THEN /\ resp.status = HTTP_200_OK
             /\ Len(resp.body) = 1
             /\ resp.body[1] = get_outstanding_students(resp.pool, 1).list[1]
             /\ ScoreAtLeast(resp.body[1], 1)
             /\ \A t \in resp.pool : ScoreGE(resp.body[1], t)
        ELSE resp.status = HTTP_410_GONE

\* C8: Grade(student, course, g) answers 400 and changes nothing when the
\* student has no Enrollment referencing course; otherwise exactly the first
\* such Enrollment gets grade g and the list's length and order, every
\* course, every other grade and every other student are unchanged.
C8_GradeSetsFirstMatchOnly ==
    [][\A s \in StudentIds, c \in CourseIds, g \in GradeInputs :
          (/\ resp'.op = "grade"
           /\ resp'.student = s
           /\ resp'.course = c
           /\ resp'.grade = g
           /\ s \in DOMAIN students)
          => IF ~InSeq(c, enrolled_courses(students[s]))
             THEN /\ resp'.status = HTTP_400_BAD_REQUEST
                  /\ students' = students
             ELSE /\ resp'.status = HTTP_200_OK
                  /\ courses' = courses
                  /\ DOMAIN students' = DOMAIN students
                  /\ \A t \in DOMAIN students \ {s} : students'[t] = students[t]
                  /\ Len(students'[s]) = Len(students[s])
                  /\ \A i \in 1..Len(students[s]) :
                         /\ students'[s][i].course = students[s][i].course
                         /\ students'[s][i].grade =
                                IF /\ students[s][i].course = c
                                   /\ \A j \in 1..(i - 1) :
                                          students[s][j].course # c
                                THEN g
                                ELSE students[s][i].grade]_vars

\* a grade was set for a student holding two Enrollments for the course:
\* the first carries it, the second is as it was
C8_Witness ==
    /\ resp.op = "grade"
    /\ resp.status = HTTP_200_OK
    /\ resp.grade # Null
    /\ Len(resp.fetched) = 2
    /\ CountCourse(resp.fetched, resp.course) = 2
    /\ students[resp.student][1].grade = resp.grade
    /\ students[resp.student][2] = resp.fetched[2]
    /\ resp.fetched[1].grade # resp.grade

\* C9: in every reachable state, interleavings of enrol or bulk_enrol with
\* delete-course included, every Enrollment's course references a Course
\* record that exists.
C9_EnrollmentCourseExists ==
    \A s \in DOMAIN students :
        \A i \in 1..Len(students[s]) :
            students[s][i].course \in DOMAIN courses

\* two enrol requests for the same (student, course) pair have both answered
\* 200 and no other request has started
BothEnrolsSucceeded(r1, r2) ==
    /\ r1 # r2
    /\ reqs[r1].op = "enrol" /\ reqs[r2].op = "enrol"
    /\ reqs[r1].pc = "done" /\ reqs[r2].pc = "done"
    /\ reqs[r1].status = HTTP_200_OK /\ reqs[r2].status = HTTP_200_OK
    /\ reqs[r1].student = reqs[r2].student
    /\ reqs[r1].course = reqs[r2].course
    /\ \A r \in ReqIds \ {r1, r2} : reqs[r].pc = "idle"

\* C10 as amended: when two concurrent enrol requests for the same pair both
\* pass the duplicate check before either writes, both answer 200, and the
\* stored student ends with exactly one Enrollment referencing the course
\* (the second save overwrites the first).
C10_ConcurrentEnrolsLeaveOne ==
    \A r1, r2 \in ReqIds :
        BothEnrolsSucceeded(r1, r2) =>
            CountCourse(students[reqs[r1].student], reqs[r1].course) = 1

\* both concurrent enrol requests for one pair have answered 200
C10_Witness ==
    \E r1, r2 \in ReqIds :
        /\ BothEnrolsSucceeded(r1, r2)
        /\ CountCourse(students[reqs[r1].student], reqs[r1].course) = 1

\* C10 as stated: when two concurrent enrol requests for the same pair both
\* pass the duplicate check before either writes and both answer 200, the
\* stored student ends with two Enrollments referencing the course.
C10_ConcurrentEnrolsLeaveTwo ==
    \A r1, r2 \in ReqIds :
        BothEnrolsSucceeded(r1, r2) =>
            CountCourse(students[reqs[r1].student], reqs[r1].course) = 2

====
